---- MODULE Spec2Model ----
(***************************************************************************)
(* Duplicate-bug similarity engine of                                      *)
(* .agent/skills/detecting-duplicate-bugs/scripts/similarity_checker.py.   *)
(*                                                                         *)
(* Texts are sequences of one-character strings.  A report is a Python     *)
(* dict: a function whose domain is the set of fields that are present.    *)
(*                                                                         *)
(* Numbers.  Python floats are modelled as finite-precision fixed-point    *)
(* numbers, rounded to nearest (ties to even) after every division and     *)
(* square root, as IEEE arithmetic rounds after every operation:           *)
(*   - a field similarity is an integer count of 1/Unit       (1.0 = Unit) *)
(*   - a weight is an integer count of 1/WeightUnit           (0.40 = 40)  *)
(*   - an overall score or a threshold is a count of 1/ScoreUnit, the      *)
(*     product of the two, so the weighted sum itself is exact             *)
(*   - a breakdown value (round(x, 3)) is a count of 1/1000.               *)
(***************************************************************************)
EXTENDS Integers, Sequences, FiniteSets, TLC

VARIABLES
    pc,              \* position of the caller: see Init / ScoreInit
    new_bug,         \* the new report (dict)
    candidates,      \* the corpus: a sequence of reports (dicts)
    weights,         \* the caller's weight configuration, or None
    threshold,       \* args.threshold / find_duplicates' threshold
    threshold_high,  \* format_results' threshold_high
    compared,        \* number of calculate_bug_similarity calls executed
    matches,         \* the list returned by find_duplicates
    result,          \* what calculate_bug_similarity returned to a direct caller
    output,          \* what main produced (text rendering or JSON record)
    arg1,            \* first argument of a direct call of a text similarity
    arg2             \* second argument of that call

\* SmokeTestRunner of running-smoke-tests/scripts/smoke_test_runner.py
VARIABLES
    scenarios,       \* self.config['scenarios']
    scenario_filter, \* run's scenario_filter, or None
    todo,            \* the scenarios run's for loop has still to visit
    results,         \* self.results
    browser,         \* "none", "open" or "closed"
    closes,          \* number of executions of _close_browser
    raised,          \* an exception is propagating out of run
    steps_results,   \* _run_scenario's steps_results
    screenshots,     \* _run_scenario's screenshots
    overall_status,  \* _run_scenario's overall_status
    error_msg,       \* _run_scenario's error_msg
    executed,        \* number of _execute_step calls made for this scenario
    report           \* what run returned, or None

\* generate_workflow / validate_workflow of
\* generating-n8n-workflows/scripts/n8n_generator.py
VARIABLES
    prompt,          \* args.prompt
    workflow,        \* the workflow generate_workflow returned
    issues           \* the list validate_workflow returned

checkerVars == <<new_bug, candidates, weights, threshold, threshold_high,
                 compared, matches, result, output, arg1, arg2>>

runnerVars == <<scenarios, scenario_filter, todo, results, browser, closes,
                raised, steps_results, screenshots, overall_status, error_msg,
                executed, report>>

generatorVars == <<prompt, workflow, issues>>

vars == <<pc, checkerVars, runnerVars, generatorVars>>

(***************************************************************************)
(* Fixed-point arithmetic                                                  *)
(***************************************************************************)
Unit == 10 * 1000
WeightUnit == 10 * 10
ScoreUnit == Unit * WeightUnit
NDIGITS == 3
DisplayUnit == 10 ^ NDIGITS

\* Python's None: a value that is no text, no dict and no number
None == [x \in {"None"} |-> TRUE]

\* Python's None where the other values are strings
Null == "None"

\* no smoke test runner has been constructed
RunnerIdle ==
    /\ scenarios = <<>>
    /\ scenario_filter = Null
    /\ todo = <<>>
    /\ results = <<>>
    /\ browser = "none"
    /\ closes = 0
    /\ raised = FALSE
    /\ steps_results = <<>>
    /\ screenshots = <<>>
    /\ overall_status = Null
    /\ error_msg = Null
    /\ executed = 0
    /\ report = None

\* the workflow generator has not been called
GeneratorIdle ==
    /\ prompt = <<>>
    /\ workflow = None
    /\ issues = <<>>

\* a / b rounded to the nearest integer, ties to even (a >= 0, b > 0)
RoundDiv(a, b) ==
    LET q == a \div b
        r == a % b
    IN  IF 2 * r < b THEN q
        ELSE IF 2 * r > b THEN q + 1
        ELSE IF q % 2 = 0 THEN q ELSE q + 1

\* a rounding to two decimals, reported in 1/1000
Round2(x, scale) ==
    IF x >= 0 THEN 10 * RoundDiv(x, 10 * (scale \div DisplayUnit))
    ELSE -10 * RoundDiv(-x, 10 * (scale \div DisplayUnit))

\* round(x, 3) of a value x counted in 1/scale (a multiple of 1000): the
\* result counts 1/1000
Round3(x, scale) ==
    IF x >= 0 THEN RoundDiv(x, scale \div DisplayUnit)
    ELSE -RoundDiv(-x, scale \div DisplayUnit)

RECURSIVE ISqrtSearch(_, _, _)
\* the largest r in lo..hi with r * r <= n
ISqrtSearch(n, lo, hi) ==
    IF lo >= hi THEN lo
    ELSE LET mid == (lo + hi + 1) \div 2
         IN  IF mid * mid <= n THEN ISqrtSearch(n, mid, hi)
             ELSE ISqrtSearch(n, lo, mid - 1)

\* math.sqrt(n) of a non-negative integer n, as a count of 1/Unit
Sqrt(n) ==
    LET sq == n * Unit * Unit
        r  == ISqrtSearch(sq, 0, 46340)
    IN  IF sq - r * r > r THEN r + 1 ELSE r

(***************************************************************************)
(* Characters                                                              *)
(***************************************************************************)
AsciiLower == {"a", "b", "c", "d", "i", "p", "u"}
AsciiUpper == {"A", "B", "I", "P", "U"}
Digits == {"1"}
NonAsciiLetters == {"e_acute"}
Separators == {" ", "-"}

\* str.lower() on one character
LowerChar(c) ==
    CASE c = "A" -> "a"
      [] c = "B" -> "b"
      [] c = "I" -> "i"
      [] c = "P" -> "p"
      [] c = "U" -> "u"
      [] OTHER -> c

Lower(text) == [i \in 1..Len(text) |-> LowerChar(text[i])]

\* [a-zA-Z0-9]
IsAlnum(c) == c \in AsciiLower \cup AsciiUpper \cup Digits

\* \w of a str pattern: letters of any script, digits and the underscore
IsWord(c) == IsAlnum(c) \/ c = "_" \/ c \in NonAsciiLetters

(***************************************************************************)
(* tokenize: re.findall(r'\b[a-zA-Z0-9]+\b', text.lower())                 *)
(***************************************************************************)
WordAt(s, i) == i >= 1 /\ i <= Len(s) /\ IsWord(s[i])

\* \b holds just before position i (i = Len(s) + 1 is the end of the text)
BoundaryAt(s, i) == WordAt(s, i - 1) # WordAt(s, i)

\* first position after the greedy run [a-zA-Z0-9]+ starting at i
RunEnd(s, i) ==
    CHOOSE j \in i..(Len(s) + 1) :
        /\ \A k \in i..(j - 1) : IsAlnum(s[k])
        /\ j = Len(s) + 1 \/ ~IsAlnum(s[j])

RECURSIVE FindAll(_, _)
\* the non-overlapping matches found scanning from position i; inside a run
\* there is no \b, so backtracking to a shorter run never succeeds
FindAll(s, i) ==
    IF i > Len(s) THEN <<>>
    ELSE IF BoundaryAt(s, i) /\ IsAlnum(s[i])
         THEN LET j == RunEnd(s, i)
              IN  IF BoundaryAt(s, j)
                  THEN <<SubSeq(s, i, j - 1)>> \o FindAll(s, j)
                  ELSE FindAll(s, i + 1)
         ELSE FindAll(s, i + 1)

tokenize(text) == FindAll(Lower(text), 1)

(***************************************************************************)
(* cosine_similarity                                                       *)
(***************************************************************************)
ToSet(seq) == {seq[i] : i \in DOMAIN seq}

\* list.count
\* a count that only records whether the word occurs
CountPresence(tokens, word) ==
    IF \E i \in DOMAIN tokens : tokens[i] = word THEN 1 ELSE 0

Count(tokens, word) == Cardinality({i \in DOMAIN tokens : tokens[i] = word})

RECURSIVE SumProducts(_, _, _)
\* sum(a * b for a, b in zip(vec1, vec2)), the vectors indexed by vocab
SumProducts(vocab, vec1, vec2) ==
    IF vocab = {} THEN 0
    ELSE LET w == CHOOSE x \in vocab : TRUE
         IN  vec1[w] * vec2[w] + SumProducts(vocab \ {w}, vec1, vec2)

\* a cosine that forgets to divide by the magnitudes
cosine_dot_product(text1, text2) ==
    LET tokens1 == tokenize(text1)
        tokens2 == tokenize(text2)
        vocab == ToSet(tokens1) \cup ToSet(tokens2)
        vec1 == [w \in vocab |-> Count(tokens1, w)]
        vec2 == [w \in vocab |-> Count(tokens2, w)]
    IN  IF tokens1 = <<>> \/ tokens2 = <<>> THEN 0
        ELSE SumProducts(vocab, vec1, vec2) * Unit

\* a cosine whose vocabulary is taken from the first text only
cosine_first_vocabulary(text1, text2) ==
    LET tokens1 == tokenize(text1)
        tokens2 == tokenize(text2)
        vocab == ToSet(tokens1)
        vec1 == [w \in vocab |-> Count(tokens1, w)]
        vec2 == [w \in vocab |-> Count(tokens2, w)]
        dot_product == SumProducts(vocab, vec1, vec2)
        magnitude1 == Sqrt(SumProducts(vocab, vec1, vec1))
        magnitude2 == Sqrt(SumProducts(vocab, vec2, vec2))
    IN  IF tokens1 = <<>> \/ tokens2 = <<>> THEN 0
        ELSE IF magnitude1 = 0 \/ magnitude2 = 0 THEN 0
        ELSE RoundDiv(dot_product * Unit * Unit,
                      RoundDiv(magnitude1 * magnitude2, Unit))

cosine_similarity(text1, text2) ==
    LET tokens1 == tokenize(text1)
        tokens2 == tokenize(text2)
        vocab == ToSet(tokens1) \cup ToSet(tokens2)
        vec1 == [w \in vocab |-> Count(tokens1, w)]
        vec2 == [w \in vocab |-> Count(tokens2, w)]
        dot_product == SumProducts(vocab, vec1, vec2)
        magnitude1 == Sqrt(SumProducts(vocab, vec1, vec1))
        magnitude2 == Sqrt(SumProducts(vocab, vec2, vec2))
    IN  IF tokens1 = <<>> \/ tokens2 = <<>> THEN 0
        ELSE IF magnitude1 = 0 \/ magnitude2 = 0 THEN 0
        ELSE RoundDiv(dot_product * Unit * Unit,
                      RoundDiv(magnitude1 * magnitude2, Unit))

(***************************************************************************)
(* keyword_overlap                                                         *)
(***************************************************************************)
\* an overlap whose union counts every occurrence of a shared token
keyword_overlap_of_lists(summary1, summary2) ==
    LET tokens1 == tokenize(summary1)
        tokens2 == tokenize(summary2)
        shared == Cardinality(ToSet(tokens1) \cap ToSet(tokens2))
    IN  IF tokens1 = <<>> \/ tokens2 = <<>> THEN 0
        ELSE RoundDiv(shared * Unit, Len(tokens1) + Len(tokens2) - shared)

\* an overlap whose union is the two token lists put end to end
keyword_overlap_concatenated(summary1, summary2) ==
    LET tokens1 == tokenize(summary1)
        tokens2 == tokenize(summary2)
    IN  IF tokens1 = <<>> \/ tokens2 = <<>> THEN 0
        ELSE RoundDiv(Cardinality(ToSet(tokens1) \cap ToSet(tokens2)) * Unit,
                      Len(tokens1 \o tokens2))

\* an overlap measured against the first text's tokens only
keyword_containment(summary1, summary2) ==
    LET tokens1 == ToSet(tokenize(summary1))
        tokens2 == ToSet(tokenize(summary2))
    IN  IF tokens1 = {} \/ tokens2 = {} THEN 0
        ELSE RoundDiv(Cardinality(tokens1 \cap tokens2) * Unit,
                      Cardinality(tokens1))

keyword_overlap(summary1, summary2) ==
    LET tokens1 == ToSet(tokenize(summary1))
        tokens2 == ToSet(tokenize(summary2))
    IN  IF tokens1 = {} \/ tokens2 = {} THEN 0
        ELSE RoundDiv(Cardinality(tokens1 \cap tokens2) * Unit,
                      Cardinality(tokens1 \cup tokens2))

(***************************************************************************)
(* sequence_similarity: difflib.SequenceMatcher(None, a, b).ratio()        *)
(* Positions are 1-based; a range lo..hi is half-open (hi excluded) as in  *)
(* difflib.  The matcher is built with its defaults: no junk function and  *)
(* autojunk = True, so when b has 200 characters or more every character   *)
(* that occurs in b more than len(b) // 100 + 1 times is "popular" and     *)
(* cannot start or carry a match; it can only extend one.                  *)
(***************************************************************************)
\* the popular characters of b (SequenceMatcher.__chain_b)
Popular(b) ==
    IF Len(b) >= 200
    THEN LET ntest == Len(b) \div 100 + 1
         IN  {c \in ToSet(b) : Count(b, c) > ntest}
    ELSE {}

RECURSIVE CommonLen(_, _, _, _, _, _, _)
\* length of the longest common run a[i..] = b[j..] inside i..ahi, j..bhi
\* that uses no character of skipped
CommonLen(a, b, i, j, ahi, bhi, skipped) ==
    IF i < ahi /\ j < bhi /\ a[i] = b[j] /\ b[j] \notin skipped
    THEN 1 + CommonLen(a, b, i + 1, j + 1, ahi, bhi, skipped)
    ELSE 0

RECURSIVE CommonLenBack(_, _, _, _, _, _)
\* length of the longest common run ending just before a[i], b[j]
CommonLenBack(a, b, i, j, alo, blo) ==
    IF i > alo /\ j > blo /\ a[i - 1] = b[j - 1]
    THEN 1 + CommonLenBack(a, b, i - 1, j - 1, alo, blo)
    ELSE 0

\* the element of a one-element set; {e(x) : x \in {v}} names the value v
\* as x, so that e uses it without computing it again
The(S) == CHOOSE x \in S : TRUE

MaxOf(S) == The({CHOOSE x \in T : \A y \in T : y <= x : T \in {S}})

MinOf(S) == The({CHOOSE x \in T : \A y \in T : x <= y : T \in {S}})

\* every <<i, j, k>> with k the length of the common run that starts at
\* a[i], b[j] and uses no character of skipped
Blocks(a, b, alo, ahi, blo, bhi, skipped) ==
    {<<i, j, CommonLen(a, b, i, j, ahi, bhi, skipped)>> :
        i \in alo..(ahi - 1), j \in blo..(bhi - 1)}

\* of the blocks of length best the one starting earliest in a, and of those
\* the one starting earliest in b
EarliestOfSize(blocks, best) ==
    The({<<besti,
           MinOf({m[2] : m \in {n \in blocks :
                                   n[3] = best /\ n[1] = besti}}),
           best>> :
         besti \in {MinOf({m[1] : m \in {n \in blocks : n[3] = best}})}})

\* <<i, j, k>>, the longest block that uses no character of skipped, the
\* earliest one of that length; <<alo, blo, 0>> when nothing matches
LongestBlock(a, b, alo, ahi, blo, bhi, skipped) ==
    IF alo >= ahi \/ blo >= bhi THEN <<alo, blo, 0>>
    ELSE The({EarliestOfSize(blocks, MaxOf({m[3] : m \in blocks})) :
              blocks \in {Blocks(a, b, alo, ahi, blo, bhi, skipped)}})

\* the block seed extended backwards, then forwards, over matching characters
Extended(a, b, alo, ahi, blo, bhi, seed) ==
    The({<<seed[1] - back, seed[2] - back,
           seed[3] + back
           + CommonLen(a, b, seed[1] + seed[3], seed[2] + seed[3],
                       ahi, bhi, {})>> :
         back \in {CommonLenBack(a, b, seed[1], seed[2], alo, blo)}})

\* SequenceMatcher.find_longest_match: the longest block free of popular
\* characters, extended at both ends
find_longest_match(a, b, alo, ahi, blo, bhi) ==
    The({Extended(a, b, alo, ahi, blo, bhi, seed) :
         seed \in {LongestBlock(a, b, alo, ahi, blo, bhi, Popular(b))}})

RECURSIVE MatchedSize(_, _, _, _, _, _)
\* sum of the sizes of SequenceMatcher.get_matching_blocks over the range:
\* the longest match m = <<i, j, k>>, then the ranges left and right of it
MatchedSize(a, b, alo, ahi, blo, bhi) ==
    The({IF m[3] = 0 THEN 0
         ELSE m[3]
              + (IF alo < m[1] /\ blo < m[2]
                 THEN MatchedSize(a, b, alo, m[1], blo, m[2]) ELSE 0)
              + (IF m[1] + m[3] < ahi /\ m[2] + m[3] < bhi
                 THEN MatchedSize(a, b, m[1] + m[3], ahi, m[2] + m[3], bhi)
                 ELSE 0) :
         m \in {find_longest_match(a, b, alo, ahi, blo, bhi)}})

\* SequenceMatcher.ratio() of the lower-cased texts a and b
Ratio(a, b) ==
    IF Len(a) + Len(b) = 0 THEN Unit
    ELSE RoundDiv(2 * MatchedSize(a, b, 1, Len(a) + 1, 1, Len(b) + 1) * Unit,
                  Len(a) + Len(b))

sequence_similarity(text1, text2) ==
    The({Ratio(a, b) : a \in {Lower(text1)}, b \in {Lower(text2)}})

(***************************************************************************)
(* Reports (dicts) and calculate_bug_similarity                            *)
(***************************************************************************)
\* dict.get(field, default)
Get(d, field, default) == IF field \in DOMAIN d THEN d[field] ELSE default

DEFAULT_WEIGHTS ==
    [summary |-> 40, description |-> 40, component |-> 10, steps |-> 10]

\* weights = weights or {...}
EffectiveWeights(w) == IF w = None THEN DEFAULT_WEIGHTS ELSE w

\* a summary score that forgets the keyword overlap
SummaryCosineOnly(new, existing) ==
    cosine_similarity(Get(new, "summary", <<>>),
                      Get(existing, "summary", <<>>))

\* summary_sim = (summary_cos + summary_key) / 2
SummarySim(new, existing) ==
    RoundDiv(cosine_similarity(Get(new, "summary", <<>>),
                               Get(existing, "summary", <<>>))
             + keyword_overlap(Get(new, "summary", <<>>),
                               Get(existing, "summary", <<>>)),
             2)

DescSim(new, existing) ==
    cosine_similarity(Get(new, "description", <<>>),
                      Get(existing, "description", <<>>))

\* 1.0 if new_bug.get('component') == existing_bug.get('component') else 0.0
CompSim(new, existing) ==
    IF Get(new, "component", None) = Get(existing, "component", None)
    THEN Unit ELSE 0

\* a steps score taken from the token sets instead of the raw strings
StepsKeywordOverlap(new, existing) ==
    keyword_overlap(Get(new, "steps_to_reproduce", <<>>),
                    Get(existing, "steps_to_reproduce", <<>>))

StepsSim(new, existing) ==
    sequence_similarity(Get(new, "steps_to_reproduce", <<>>),
                        Get(existing, "steps_to_reproduce", <<>>))

\* the weighted sum, a count of 1/ScoreUnit
WeightedSum(summary_sim, desc_sim, comp_sim, steps_sim, w) ==
    summary_sim * w.summary + desc_sim * w.description
    + comp_sim * w.component + steps_sim * w.steps

\* returns (overall, breakdown); never raises for a complete weights dict
calculate_bug_similarity(new, existing, w) ==
    LET weights_ == EffectiveWeights(w)
        summary_sim == SummarySim(new, existing)
        desc_sim == DescSim(new, existing)
        comp_sim == CompSim(new, existing)
        steps_sim == StepsSim(new, existing)
        overall == WeightedSum(summary_sim, desc_sim, comp_sim, steps_sim,
                               weights_)
    IN  [score |-> overall,
         breakdown |->
            [summary |-> Round3(summary_sim, Unit),
             description |-> Round3(desc_sim, Unit),
             component |-> Round3(comp_sim, Unit),
             steps |-> Round3(steps_sim, Unit),
             overall |-> Round3(overall, ScoreUnit)]]

(***************************************************************************)
(* find_duplicates                                                         *)
(***************************************************************************)
DEFAULT_THRESHOLD == 700000
DEFAULT_THRESHOLD_HIGH == 850000

\* find_duplicates scores every candidate with the default weights: it has
\* no weights parameter and passes none on
ScoreCandidate(new, candidate) ==
    calculate_bug_similarity(new, candidate, None)

\* a filter that drops a score equal to the threshold
KeepsStrict(score, thr) == score > thr

\* a filter with the comparison turned around
KeepsAtMost(score, thr) == score <= thr

\* if score >= threshold
Keeps(score, thr) == score >= thr

MakeMatch(candidate, scored) ==
    [key |-> Get(candidate, "key", <<"UNKNOWN">>),
     summary |-> Get(candidate, "summary", <<>>),
     similarity |-> scored.score,
     breakdown |-> scored.breakdown,
     url |-> Get(candidate, "url", <<>>)]

RECURSIVE ScanCorpusUniqueKeys(_, _, _, _)
\* a loop that skips a candidate whose key an earlier candidate carries
ScanCorpusUniqueKeys(new, cands, thr, i) ==
    IF i > Len(cands) THEN <<>>
    ELSE LET scored == ScoreCandidate(new, cands[i])
             seen == \E j \in 1..(i - 1) :
                        Get(cands[j], "key", <<"UNKNOWN">>)
                            = Get(cands[i], "key", <<"UNKNOWN">>)
         IN  (IF Keeps(scored.score, thr) /\ ~seen
              THEN <<MakeMatch(cands[i], scored)>> ELSE <<>>)
             \o ScanCorpusUniqueKeys(new, cands, thr, i + 1)

RECURSIVE ScanCorpusUntilMatch(_, _, _, _)
\* a loop that stops looking once a candidate has matched
ScanCorpusUntilMatch(new, cands, thr, i) ==
    IF i > Len(cands) THEN <<>>
    ELSE LET scored == ScoreCandidate(new, cands[i])
         IN  IF Keeps(scored.score, thr)
             THEN <<MakeMatch(cands[i], scored)>>
             ELSE ScanCorpusUntilMatch(new, cands, thr, i + 1)

RECURSIVE ScanCorpus(_, _, _, _)
\* the for loop: the matches appended for candidates i.. in corpus order
ScanCorpus(new, cands, thr, i) ==
    IF i > Len(cands) THEN <<>>
    ELSE LET scored == ScoreCandidate(new, cands[i])
         IN  (IF Keeps(scored.score, thr)
              THEN <<MakeMatch(cands[i], scored)>> ELSE <<>>)
             \o ScanCorpus(new, cands, thr, i + 1)

\* a descending sort that puts a later equal key first (ties reversed)
InsertBeforeEqual(ms, m) ==
    LET n == Cardinality({i \in DOMAIN ms : ms[i].similarity > m.similarity})
    IN  SubSeq(ms, 1, n) \o <<m>> \o SubSeq(ms, n + 1, Len(ms))

\* position at which a stable descending sort places m among the already
\* sorted ms: after every element whose key is >= m's
StableInsert(ms, m) ==
    LET n == Cardinality({i \in DOMAIN ms : ms[i].similarity >= m.similarity})
    IN  SubSeq(ms, 1, n) \o <<m>> \o SubSeq(ms, n + 1, Len(ms))

RECURSIVE SortPrefix(_, _)
SortPrefix(ms, n) ==
    IF n = 0 THEN <<>> ELSE StableInsert(SortPrefix(ms, n - 1), ms[n])

\* a find_duplicates that returns the matches in scan order
Unsorted(ms) == ms

\* matches.sort(key=lambda x: x['similarity'], reverse=True): list.sort is
\* stable, and reverse=True keeps the original order of equal keys
SortBySimilarity(ms) == SortPrefix(ms, Len(ms))

find_duplicates(new, cands, thr) ==
    SortBySimilarity(ScanCorpus(new, cands, thr, 1))

(***************************************************************************)
(* format_results                                                          *)
(***************************************************************************)
\* a high tier that leaves out a score equal to the threshold
HighMatchesStrict(ms, thr_high) ==
    LET keep(m) == m.similarity > thr_high IN SelectSeq(ms, keep)

HighMatches(ms, thr_high) ==
    LET keep(m) == m.similarity >= thr_high IN SelectSeq(ms, keep)

PossibleMatches(ms, thr_high) ==
    LET keep(m) == m.similarity < thr_high IN SelectSeq(ms, keep)

\* a formatter whose recommendation looks at the possible tier first
format_results_possible_first(ms, thr_high) ==
    IF ms = <<>>
    THEN [kind |-> "text", high_matches |-> <<>>, possible_matches |-> <<>>,
          recommendation |-> <<"safe_to_create">>]
    ELSE LET high_matches == HighMatches(ms, thr_high)
             possible_matches == PossibleMatches(ms, thr_high)
         IN  [kind |-> "text",
              high_matches |-> high_matches,
              possible_matches |-> possible_matches,
              recommendation |->
                 IF possible_matches # <<>>
                 THEN <<"check_possible">>
                 ELSE <<"review", high_matches[1].key>>]

\* the text rendering, kept structured: the two tiers in the order they are
\* listed and the recommendation line
format_results(ms, thr_high) ==
    IF ms = <<>>
    THEN [kind |-> "text", high_matches |-> <<>>, possible_matches |-> <<>>,
          recommendation |-> <<"safe_to_create">>]
    ELSE LET high_matches == HighMatches(ms, thr_high)
             possible_matches == PossibleMatches(ms, thr_high)
         IN  [kind |-> "text",
              high_matches |-> high_matches,
              possible_matches |-> possible_matches,
              recommendation |->
                 IF high_matches # <<>>
                 THEN <<"review", high_matches[1].key>>
                 ELSE IF possible_matches # <<>>
                 THEN <<"check_possible">>
                 ELSE <<"proceed">>]

\* the --json record of main
json_result(new, cands, ms) ==
    [kind |-> "json",
     new_bug_summary |-> Get(new, "summary", <<>>),
     candidates_checked |-> Len(cands),
     matches_found |-> Len(ms),
     matches |-> ms]

(***************************************************************************)
(* Inputs                                                                  *)
(***************************************************************************)
MaxCorpus == 2

T_abc == <<"a", " ", "b", " ", "c">>
T_ab == <<"a", " ", "b">>
T_a == <<"a">>
T_cd == <<"c", " ", "d">>
T_AB == <<"A", "-", "b">>
T_UI == <<"U", "I">>
T_API == <<"A", "P", "I">>
T_steps == <<"a", "b">>
T_steps2 == <<"b", "a", "b">>

\* the reports being filed: a complete one and one lacking fields
NewBugs ==
    {[summary |-> T_abc, description |-> T_a, component |-> T_UI,
      steps_to_reproduce |-> T_steps],
     [summary |-> T_abc, description |-> T_a]}

\* the existing reports a corpus is drawn from
Pool ==
    {[key |-> k, summary |-> s, description |-> T_a, component |-> c,
      steps_to_reproduce |-> T_steps] :
        k \in {<<"A">>, <<"B">>}, s \in {T_abc, T_a}, c \in {T_UI, T_API}}

RECURSIVE SeqsUpTo(_, _)
\* every sequence over S of length at most n
SeqsUpTo(S, n) ==
    IF n = 0 THEN {<<>>}
    ELSE LET shorter == SeqsUpTo(S, n - 1)
         IN  shorter \cup {Append(q, x) : q \in shorter, x \in S}

Corpora == SeqsUpTo(Pool, MaxCorpus)

Thresholds == {DEFAULT_THRESHOLD, 900000}
HighThresholds == {DEFAULT_THRESHOLD_HIGH, 900000}

\* weight configurations a caller may hold for a run
RunWeights ==
    {None,
     [summary |-> 10, description |-> 10, component |-> 70, steps |-> 10],
     [summary |-> 40, description |-> 40, component |-> 10, steps |-> 9]}

(***************************************************************************)
(* The run of main: load, find_duplicates, then one of the two outputs     *)
(***************************************************************************)
Init ==
    /\ RunnerIdle
    /\ GeneratorIdle
    /\ pc = "loaded"
    /\ new_bug \in NewBugs
    /\ candidates \in Corpora
    /\ weights \in RunWeights
    /\ threshold \in Thresholds
    /\ threshold_high = DEFAULT_THRESHOLD_HIGH
    /\ compared = 0
    /\ matches = <<>>
    /\ result = None
    /\ output = None
    /\ arg1 = <<>>
    /\ arg2 = <<>>

\* matches = find_duplicates(new_bug, candidates, args.threshold)
FindDuplicates ==
    /\ pc = "loaded"
    /\ matches' = find_duplicates(new_bug, candidates, threshold)
    /\ compared' = Len(candidates)
    /\ pc' = "found"
    /\ UNCHANGED <<runnerVars, generatorVars>>
    /\ UNCHANGED <<new_bug, candidates, weights, threshold, threshold_high,
                   result, output, arg1, arg2>>

\* output = format_results(matches), or a caller's
\* format_results(matches, threshold_high)
FormatResults ==
    /\ pc = "found"
    /\ \E th \in HighThresholds :
          /\ threshold_high' = th
          /\ output' = format_results(matches, th)
    /\ pc' = "done"
    /\ UNCHANGED <<runnerVars, generatorVars>>
    /\ UNCHANGED <<new_bug, candidates, weights, threshold, compared, matches,
                   result, arg1, arg2>>

\* if args.json: output = json.dumps(result)
JsonOutput ==
    /\ pc = "found"
    /\ output' = json_result(new_bug, candidates, matches)
    /\ pc' = "done"
    /\ UNCHANGED <<runnerVars, generatorVars>>
    /\ UNCHANGED <<new_bug, candidates, weights, threshold, threshold_high,
                   compared, matches, result, arg1, arg2>>

Next == FindDuplicates \/ FormatResults \/ JsonOutput

Spec == Init /\ [][Next]_vars

(***************************************************************************)
(* A direct call of the scorer:                                            *)
(* calculate_bug_similarity(new_bug, existing_bug, weights)                *)
(***************************************************************************)
\* the dict d without the fields in absent
Without(d, absent) == [f \in (DOMAIN d) \ absent |-> d[f]]

T_abab == <<"a", "b", "a", "b">>
T_baab == <<"b", "a", "a", "b">>

ScoreNewBugs ==
    NewBugs \cup {[summary |-> T_ab, description |-> T_abc,
                   component |-> T_UI],
                  [description |-> T_a, component |-> T_UI],
                  [summary |-> T_abc, description |-> T_a,
                   component |-> T_UI, steps_to_reproduce |-> T_abab]}

ScoreExisting ==
    LET full == [summary : {T_abc, T_ab, T_AB, T_cd},
                 description : {T_a, T_abc, T_cd},
                 component : {T_UI, T_API, <<>>},
                 steps_to_reproduce : {T_steps, T_steps2, T_baab, <<>>}]
    IN  {Without(r, absent) :
            r \in full,
            absent \in SUBSET {"summary", "component", "steps_to_reproduce"}}

\* weight dicts a caller may pass: none, valid ones, and ones that are not
\* a convex combination (sum 0.99, sum 1.01, a negative weight, sum 4.0)
WeightConfigs ==
    {None,
     [summary |-> 10, description |-> 10, component |-> 70, steps |-> 10],
     [summary |-> 40, description |-> 40, component |-> 10, steps |-> 9],
     [summary |-> 40, description |-> 40, component |-> 10, steps |-> 11],
     [summary |-> 60, description |-> 60, component |-> -30, steps |-> 10],
     [summary |-> 100, description |-> 100, component |-> 100,
      steps |-> 100]}

ScoreInit ==
    /\ RunnerIdle
    /\ GeneratorIdle
    /\ pc = "call"
    /\ new_bug \in ScoreNewBugs
    /\ candidates \in {<<e>> : e \in ScoreExisting}
    /\ weights \in WeightConfigs
    /\ threshold = DEFAULT_THRESHOLD
    /\ threshold_high = DEFAULT_THRESHOLD_HIGH
    /\ compared = 0
    /\ matches = <<>>
    /\ result = None
    /\ output = None
    /\ arg1 = <<>>
    /\ arg2 = <<>>

Score ==
    /\ pc = "call"
    /\ result' = calculate_bug_similarity(new_bug, candidates[1], weights)
    /\ compared' = compared + 1
    /\ pc' = "scored"
    /\ UNCHANGED <<runnerVars, generatorVars>>
    /\ UNCHANGED <<new_bug, candidates, weights, threshold, threshold_high,
                   matches, output, arg1, arg2>>

ScoreNext == Score

ScoreSpec == ScoreInit /\ [][ScoreNext]_vars

(***************************************************************************)
(* A direct call of one of the text functions:                             *)
(* cosine_similarity(arg1, arg2), keyword_overlap(arg1, arg2),             *)
(* sequence_similarity(arg1, arg2) or tokenize(arg1)                       *)
(***************************************************************************)
MaxLen == 3

TextChars == {"a", "b", " "}

T_aab == <<"a", " ", "a", " ", "b">>
T_a_b == <<"a", "-", "b">>
T_under == <<"a", "_", "b">>
T_accent == <<"a", "e_acute">>

\* a text long enough for the matcher's automatic junk heuristic
LongText == [i \in 1..200 |-> "a"]

\* every text of at most MaxLen characters over TextChars, and longer samples:
\* three tokens, a repeated token, upper case, punctuation, an underscore and
\* a non-ASCII letter next to a token
Texts ==
    SeqsUpTo(TextChars, MaxLen)
    \cup {T_abc, T_aab, T_AB, T_a_b, T_under, T_accent}

TextInit ==
    /\ RunnerIdle
    /\ GeneratorIdle
    /\ pc = "args"
    /\ arg1 \in Texts
    /\ arg2 \in Texts \cup {LongText}
    /\ new_bug = None
    /\ candidates = <<>>
    /\ weights = None
    /\ threshold = DEFAULT_THRESHOLD
    /\ threshold_high = DEFAULT_THRESHOLD_HIGH
    /\ compared = 0
    /\ matches = <<>>
    /\ result = None
    /\ output = None

CosineSimilarity ==
    /\ pc = "args"
    /\ result' = cosine_similarity(arg1, arg2)
    /\ pc' = "cosine"
    /\ UNCHANGED <<runnerVars, generatorVars>>
    /\ UNCHANGED <<new_bug, candidates, weights, threshold, threshold_high,
                   compared, matches, output, arg1, arg2>>

KeywordOverlap ==
    /\ pc = "args"
    /\ result' = keyword_overlap(arg1, arg2)
    /\ pc' = "overlap"
    /\ UNCHANGED <<runnerVars, generatorVars>>
    /\ UNCHANGED <<new_bug, candidates, weights, threshold, threshold_high,
                   compared, matches, output, arg1, arg2>>

SequenceSimilarity ==
    /\ pc = "args"
    /\ result' = sequence_similarity(arg1, arg2)
    /\ pc' = "sequence"
    /\ UNCHANGED <<runnerVars, generatorVars>>
    /\ UNCHANGED <<new_bug, candidates, weights, threshold, threshold_high,
                   compared, matches, output, arg1, arg2>>

\* tokens = tokenize(arg1)
Tokenize ==
    /\ pc = "args"
    /\ result' = tokenize(arg1)
    /\ pc' = "tokens"
    /\ UNCHANGED <<runnerVars, generatorVars>>
    /\ UNCHANGED <<new_bug, candidates, weights, threshold, threshold_high,
                   compared, matches, output, arg1, arg2>>

TextNext ==
    CosineSimilarity \/ KeywordOverlap \/ SequenceSimilarity \/ Tokenize

TextSpec == TextInit /\ [][TextNext]_vars

(***************************************************************************)
(* Properties of find_duplicates (specification Spec)                      *)
(***************************************************************************)
Returned == pc \in {"found", "done"}

\* the Match find_duplicates builds for each corpus position: the candidate
\* with the score and breakdown computed for it
MatchAt ==
    [i \in DOMAIN candidates |->
        MakeMatch(candidates[i],
                  calculate_bug_similarity(new_bug, candidates[i], None))]

RECURSIVE KeptFrom(_, _)
\* the Matches of the corpus positions i.. that reach the threshold, in
\* corpus order
KeptFrom(all, i) ==
    IF i > Len(all) THEN <<>>
    ELSE (IF all[i].similarity >= threshold THEN <<all[i]>> ELSE <<>>)
         \o KeptFrom(all, i + 1)

Occurrences(seq, x) == Cardinality({k \in DOMAIN seq : seq[k] = x})

\* C1: find_duplicates returns a Match for a candidate if and only if the
\* candidate's overall score is >= the threshold: no returned match scores
\* below the threshold, and every candidate scoring at or above it (equal
\* included) is in the result, once per corpus position.
C1_ReturnedIffAtLeastThreshold ==
    Returned =>
        LET all == MatchAt
            kept == {i \in DOMAIN all : all[i].similarity >= threshold}
        IN  /\ \A k \in DOMAIN matches : matches[k].similarity >= threshold
            /\ Len(matches) = Cardinality(kept)
            /\ \A i \in DOMAIN all :
                  Occurrences(matches, all[i]) =
                     IF i \in kept
                     THEN Cardinality({j \in kept : all[j] = all[i]})
                     ELSE 0

\* a run in which one candidate scores exactly the threshold and is returned
\* while another scores below it and is dropped
C1_Witness ==
    /\ pc = "found"
    /\ LET all == MatchAt
       IN  /\ \E i \in DOMAIN all :
                 /\ all[i].similarity = threshold
                 /\ Occurrences(matches, all[i]) > 0
           /\ \E j \in DOMAIN all : all[j].similarity < threshold

\* C2: the list returned by find_duplicates is sorted by overall score in
\* non-increasing order: each match scores at least as much as the next.
C2_SortedDescending ==
    Returned =>
        \A k \in 1..(Len(matches) - 1) :
            matches[k].similarity >= matches[k + 1].similarity

\* a run whose corpus holds a lower-scoring match before a higher-scoring
\* one, so that the sort had to move them
C2_Witness ==
    /\ pc = "found"
    /\ Len(matches) >= 2
    /\ matches # KeptFrom(MatchAt, 1)
    /\ matches[1].similarity > matches[Len(matches)].similarity

SameScore(seq, sim) ==
    LET keep(m) == m.similarity = sim IN SelectSeq(seq, keep)

\* C3: ranking is stable: the returned matches that share an overall score
\* appear in the order their candidates have in the corpus.
C3_StableRanking ==
    Returned =>
        LET kept == KeptFrom(MatchAt, 1)
        IN  \A k \in DOMAIN matches :
                SameScore(matches, matches[k].similarity)
                    = SameScore(kept, matches[k].similarity)

\* two candidates with equal score in corpus order [B, A], returned as
\* [B, A]
C3_Witness ==
    /\ pc = "found"
    /\ Len(candidates) >= 2
    /\ candidates[1].key = <<"B">>
    /\ candidates[2].key = <<"A">>
    /\ Len(matches) >= 2
    /\ matches[1].key = <<"B">>
    /\ matches[2].key = <<"A">>
    /\ matches[1].similarity = matches[2].similarity

(***************************************************************************)
(* Configuration (specification Spec)                                      *)
(***************************************************************************)
\* a WeightConfig as the data model defines it: no negative weight, sum 1.0
\* (the tolerance of 1e-6 is finer than 1/WeightUnit)
ValidWeights(w) ==
    /\ w.summary >= 0 /\ w.description >= 0
    /\ w.component >= 0 /\ w.steps >= 0
    /\ w.summary + w.description + w.component + w.steps = WeightUnit

\* C7: a run with high_confidence_threshold < duplicate_threshold is
\* rejected: every run that produces results has
\* high_confidence_threshold >= duplicate_threshold.
C7_ResultsOnlyWithOrderedThresholds ==
    pc = "done" => threshold_high >= threshold

\* C8: an invalid configuration (weights that are no valid WeightConfig, or
\* high_confidence_threshold < duplicate_threshold) stops the run before
\* any comparison executes, with no match list and no output.
C8_InvalidConfigurationComparesNothing ==
    (\/ ~ValidWeights(EffectiveWeights(weights))
     \/ threshold_high < threshold)
        => /\ compared = 0
           /\ matches = <<>>
           /\ output = None

\* C9: find_duplicates honours the caller's WeightConfig: the returned
\* matches are the candidates whose weighted sum under that configuration
\* reaches the threshold, each carrying that score.
C9_MatchesScoredWithCallerWeights ==
    Returned =>
        LET scored == [i \in DOMAIN candidates |->
                          calculate_bug_similarity(new_bug, candidates[i],
                                                   weights)]
        IN  /\ \A i \in DOMAIN candidates :
                  scored[i].score >= threshold =>
                      \E k \in DOMAIN matches :
                          matches[k] = MakeMatch(candidates[i], scored[i])
            /\ \A k \in DOMAIN matches :
                  \E i \in DOMAIN candidates :
                      /\ scored[i].score >= threshold
                      /\ matches[k] = MakeMatch(candidates[i], scored[i])

(***************************************************************************)
(* Tiers of format_results (specification Spec)                            *)
(***************************************************************************)
Rendered == pc = "done" /\ output.kind = "text"

RECURSIVE IsSubsequence(_, _)
\* sub can be obtained from seq by deleting elements, the order kept
IsSubsequence(sub, seq) ==
    IF sub = <<>> THEN TRUE
    ELSE IF seq = <<>> THEN FALSE
    ELSE IF Head(sub) = Head(seq) THEN IsSubsequence(Tail(sub), Tail(seq))
    ELSE IsSubsequence(sub, Tail(seq))

\* C10: the tiers are a view over the ranked list: every ranked match is in
\* exactly one of high_confidence (overall >= high threshold) and possible
\* (duplicate threshold <= overall < high threshold), and each tier lists
\* its matches in the relative order of the ranked list.
C10_TiersPartitionRankedList ==
    Rendered =>
        LET high == output.high_matches
            possible == output.possible_matches
        IN  /\ \A k \in DOMAIN high : high[k].similarity >= threshold_high
            /\ \A k \in DOMAIN possible :
                  /\ possible[k].similarity < threshold_high
                  /\ possible[k].similarity >= threshold
            /\ \A k \in DOMAIN matches :
                  Occurrences(high, matches[k])
                  + Occurrences(possible, matches[k])
                      = Occurrences(matches, matches[k])
            /\ Len(high) + Len(possible) = Len(matches)
            /\ IsSubsequence(high, matches)
            /\ IsSubsequence(possible, matches)

\* a rendering with both tiers filled, the high tier holding a match whose
\* score equals the high threshold
C10_Witness ==
    /\ Rendered
    /\ output.high_matches # <<>>
    /\ output.possible_matches # <<>>
    /\ \E k \in DOMAIN output.high_matches :
          output.high_matches[k].similarity = threshold_high

(***************************************************************************)
(* The scorer (specification ScoreSpec)                                    *)
(***************************************************************************)
\* the text of a field, "" when the report lacks it
Field(r, f) == IF f \in DOMAIN r THEN r[f] ELSE <<>>

SameComponent(x, y) ==
    IF "component" \in DOMAIN x /\ "component" \in DOMAIN y
    THEN x.component = y.component
    ELSE "component" \notin DOMAIN x /\ "component" \notin DOMAIN y

\* no token of one text is a token of the other
DisjointTokens(t1, t2) == ToSet(tokenize(t1)) \cap ToSet(tokenize(t2)) = {}

C5_BreakdownInUnitInterval ==
    pc = "scored" =>
        \A f \in {"summary", "description", "component", "steps", "overall"} :
            /\ result.breakdown[f] >= 0
            /\ result.breakdown[f] <= DisplayUnit

\* C6: scoring with weights that do not sum to 1.0, or with a negative
\* weight, fails instead of returning a score: a score is returned only
\* under a valid WeightConfig.
C6_ScoreOnlyUnderValidWeights ==
    pc = "scored" => ValidWeights(EffectiveWeights(weights))

(***************************************************************************)
(* C11: the formatter emits exactly one recommendation, chosen by          *)
(* priority: when some match reaches the high-confidence threshold it      *)
(* recommends reviewing the top-ranked such match; otherwise, when the     *)
(* match list is not empty, it recommends checking the possible matches;   *)
(* otherwise (empty match list) it gives the "no duplicate, safe to        *)
(* create" recommendation.                                                 *)
(***************************************************************************)
HighIndexes == {i \in DOMAIN matches : matches[i].similarity >= threshold_high}

C11_RecommendationByPriority ==
    Rendered =>
        IF HighIndexes # {}
        THEN LET top == CHOOSE i \in HighIndexes : \A j \in HighIndexes : i <= j
             IN  output.recommendation = <<"review", matches[top].key>>
        ELSE IF matches # <<>>
        THEN output.recommendation = <<"check_possible">>
        ELSE output.recommendation = <<"safe_to_create">>

\* both tiers are listed and the recommendation names the top high match
C11_Witness ==
    /\ Rendered
    /\ output.high_matches # <<>>
    /\ output.possible_matches # <<>>
    /\ output.recommendation = <<"review", matches[1].key>>

(***************************************************************************)
(* C12: threshold monotonicity.  For a fixed new report and corpus and     *)
(* thresholds t1 <= t2, the match list returned with t2 is a prefix of the *)
(* list returned with t1 (same matches, same order), hence never longer.   *)
(***************************************************************************)
IsPrefix(p, s) == Len(p) <= Len(s) /\ SubSeq(s, 1, Len(p)) = p

C12_HigherThresholdGivesPrefix ==
    pc = "found" =>
        \A t \in Thresholds :
            LET other == find_duplicates(new_bug, candidates, t)
            IN  /\ threshold <= t => IsPrefix(other, matches)
                /\ t <= threshold => IsPrefix(matches, other)

\* the higher threshold returns a non-empty proper prefix
C12_Witness ==
    /\ pc = "found"
    /\ threshold = DEFAULT_THRESHOLD
    /\ Len(matches) >= 2
    /\ \E t \in Thresholds :
          LET other == find_duplicates(new_bug, candidates, t)
          IN  /\ threshold < t
              /\ other # <<>>
              /\ Len(other) < Len(matches)

(***************************************************************************)
(* C13: an absent report field is treated as the empty string.  Scoring a  *)
(* report that lacks summary, description, component or                    *)
(* steps_to_reproduce gives the same score and breakdown as scoring the    *)
(* report with that field present and equal to "" (so component absent on  *)
(* one side and "" on the other counts as equal).                          *)
(***************************************************************************)
ReportFields == {"summary", "description", "component", "steps_to_reproduce"}

\* the report with every absent field present and empty
Filled(r) ==
    [f \in (DOMAIN r) \cup ReportFields |-> Get(r, f, <<>>)]

C13_AbsentFieldScoresAsEmpty ==
    pc = "scored" =>
        result = calculate_bug_similarity(Filled(new_bug),
                                          Filled(candidates[1]), weights)

(***************************************************************************)
(* C14: identical reports.  As stated: whenever the new report and a       *)
(* candidate have identical summary, description, component and            *)
(* steps_to_reproduce, the breakdown is all 1.0 (summary, description,     *)
(* component, steps, overall) and the candidate is returned and classified *)
(* high-confidence.                                                        *)
(***************************************************************************)
\* each of the four fields is present with the same value in both reports,
\* or absent in both
IdenticalReports(x, y) ==
    \A f \in ReportFields : Get(x, f, None) = Get(y, f, None)

AllOnes ==
    [summary |-> DisplayUnit, description |-> DisplayUnit,
     component |-> DisplayUnit, steps |-> DisplayUnit,
     overall |-> DisplayUnit]

\* find_duplicates returns the candidate and format_results lists it in the
\* high-confidence tier
ReturnedAsHighConfidence ==
    LET found == find_duplicates(new_bug, candidates, threshold)
    IN  /\ Len(found) = 1
        /\ format_results(found, threshold_high).high_matches = found

\* taken with the default weights, where no weight configuration interferes
C14_IdenticalReportsScoreOne ==
    (/\ pc = "scored"
     /\ weights = None
     /\ IdenticalReports(new_bug, candidates[1])) =>
        /\ result.breakdown = AllOnes
        /\ ReturnedAsHighConfidence

(***************************************************************************)
(* C14, amended: the same for identical reports whose summary and          *)
(* description each contain at least one token: the four field scores are  *)
(* 1.0, overall is 1.0 under the default weights and under any weights     *)
(* that are non-negative and sum to 1, and find_duplicates (which scores   *)
(* with the default weights) returns the candidate, which format_results   *)
(* lists as high-confidence.                                               *)
(***************************************************************************)
HasTokens(r, f) == tokenize(Get(r, f, <<>>)) # <<>>

C14_IdenticalTokenfulReportsScoreOne ==
    (/\ pc = "scored"
     /\ IdenticalReports(new_bug, candidates[1])
     /\ HasTokens(new_bug, "summary")
     /\ HasTokens(new_bug, "description")) =>
        /\ result.breakdown.summary = DisplayUnit
        /\ result.breakdown.description = DisplayUnit
        /\ result.breakdown.component = DisplayUnit
        /\ result.breakdown.steps = DisplayUnit
        /\ ValidWeights(EffectiveWeights(weights)) =>
               result.breakdown = AllOnes
        /\ ReturnedAsHighConfidence

\* identical reports with a three-token summary and no steps on either side,
\* scored with the default weights
C14_Witness ==
    /\ pc = "scored"
    /\ weights = None
    /\ IdenticalReports(new_bug, candidates[1])
    /\ Len(tokenize(Get(new_bug, "summary", <<>>))) = 3
    /\ HasTokens(new_bug, "description")
    /\ "steps_to_reproduce" \notin DOMAIN new_bug
    /\ result.breakdown = AllOnes

(***************************************************************************)
(* Properties of the text similarities (specification TextSpec)            *)
(***************************************************************************)
\* C15: for every non-empty text t, cosine_similarity(t, t) is exactly 1.0.
C15_SelfCosineIsExactlyOne ==
    (pc = "cosine" /\ arg1 = arg2 /\ arg1 # <<>>) => result = Unit

\* C15, amended: for every text t with at least one token,
\* cosine_similarity(t, t) is 1.0 up to the rounding of the square roots and
\* the division: it differs from 1.0 by at most one unit of the last digit
\* kept, and is 1.0 once rounded to the three decimals of the breakdown.
C15_SelfCosineRoundsToOne ==
    (pc = "cosine" /\ arg1 = arg2 /\ tokenize(arg1) # <<>>) =>
        /\ result \in (Unit - 1)..(Unit + 1)
        /\ Round3(result, Unit) = DisplayUnit

\* a three-token text, whose magnitude sqrt(3) is not exact
C15_Witness ==
    /\ pc = "cosine"
    /\ arg1 = T_abc
    /\ arg2 = T_abc
    /\ result # Unit
    /\ Round3(result, Unit) = DisplayUnit

\* C16: cosine_similarity is symmetric: cosine_similarity(a, b) equals
\* cosine_similarity(b, a) for all texts a, b.
C16_CosineSymmetric ==
    pc = "cosine" => result = cosine_similarity(arg2, arg1)

\* different texts with a repeated token, neither orthogonal nor parallel
C16_Witness ==
    /\ pc = "cosine"
    /\ arg1 = T_aab
    /\ arg2 = T_a
    /\ result > 0
    /\ result < Unit

\* C17: cosine_similarity returns 0.0 (and does not fail) whenever either
\* text has no token: the empty string, a whitespace-only text, both texts
\* empty; otherwise it is dot(v1, v2) / (|v1| * |v2|) over the term-frequency
\* vectors.  The dot product of two term-frequency vectors is the number of
\* pairs of equal tokens, one from each text.
EqualTokenPairs(t1, t2) ==
    Cardinality({p \in (DOMAIN t1) \X (DOMAIN t2) : t1[p[1]] = t2[p[2]]})

C17_CosineZeroOrFormula ==
    pc = "cosine" =>
        LET t1 == tokenize(arg1)
            t2 == tokenize(arg2)
        IN  IF t1 = <<>> \/ t2 = <<>>
            THEN result = 0
            ELSE result =
                    RoundDiv(EqualTokenPairs(t1, t2) * Unit * Unit,
                             RoundDiv(Sqrt(EqualTokenPairs(t1, t1))
                                      * Sqrt(EqualTokenPairs(t2, t2)), Unit))

\* a whitespace-only text against a text with tokens
C17_Witness ==
    /\ pc = "cosine"
    /\ arg1 = <<" ", " ">>
    /\ tokenize(arg2) # <<>>
    /\ result = 0

\* C18: keyword_overlap returns |A \cap B| / |A \cup B| over the sets A, B
\* of distinct tokens of the two texts, whatever the multiplicity and order
\* of the tokens, and 0.0 if either set is empty; it is symmetric.
C18_OverlapIsJaccard ==
    pc = "overlap" =>
        LET t1 == tokenize(arg1)
            t2 == tokenize(arg2)
            A == {t1[i] : i \in DOMAIN t1}
            B == {t2[i] : i \in DOMAIN t2}
            shared == Cardinality({w \in A : w \in B})
            either == Cardinality(A) + Cardinality(B) - shared
        IN  /\ result = IF A = {} \/ B = {} THEN 0
                        ELSE RoundDiv(shared * Unit, either)
            /\ result = keyword_overlap(arg2, arg1)

\* the same two tokens, one repeated, in a different order
C18_Witness ==
    /\ pc = "overlap"
    /\ arg1 = T_aab
    /\ arg2 = <<"b", " ", "a">>
    /\ result = Unit

\* C19: for every non-empty text a, keyword_overlap(a, a) is 1.0.
C19_SelfOverlapIsOne ==
    (pc = "overlap" /\ arg1 = arg2 /\ arg1 # <<>>) => result = Unit

\* C19, amended: for every text a with at least one token,
\* keyword_overlap(a, a) is 1.0.
C19_SelfOverlapOfTokensIsOne ==
    (pc = "overlap" /\ arg1 = arg2 /\ tokenize(arg1) # <<>>) =>
        result = Unit

\* a text with a repeated token
C19_Witness ==
    /\ pc = "overlap"
    /\ arg1 = T_aab
    /\ arg2 = T_aab
    /\ result = Unit

(***************************************************************************)
(* C20: sequence_similarity on the lower-cased strings a, b returns        *)
(* 2*M / (len(a) + len(b)), where M is the total length of the matching    *)
(* blocks found by taking the longest contiguous match and then,           *)
(* recursively, the unmatched remainders on each side of it; so strings    *)
(* identical up to case give 1.0, two empty strings give 1.0 and exactly   *)
(* one empty string gives 0.0.                                             *)
(***************************************************************************)
RECURSIVE LongestBlocksSize(_, _, _, _, _, _)
\* M: the longest common block of the two ranges, then the same to its left
\* and to its right
LongestBlocksSize(a, b, alo, ahi, blo, bhi) ==
    The({IF m[3] = 0 THEN 0
         ELSE m[3]
              + (IF alo < m[1] /\ blo < m[2]
                 THEN LongestBlocksSize(a, b, alo, m[1], blo, m[2]) ELSE 0)
              + (IF m[1] + m[3] < ahi /\ m[2] + m[3] < bhi
                 THEN LongestBlocksSize(a, b, m[1] + m[3], ahi,
                                        m[2] + m[3], bhi)
                 ELSE 0) :
         m \in {LongestBlock(a, b, alo, ahi, blo, bhi, {})}})

LongestBlocksRatio(a, b) ==
    IF Len(a) + Len(b) = 0 THEN Unit
    ELSE RoundDiv(2 * LongestBlocksSize(a, b, 1, Len(a) + 1, 1, Len(b) + 1)
                  * Unit,
                  Len(a) + Len(b))

C20_SequenceRatioOfLongestBlocks ==
    pc = "sequence" =>
        /\ result = LongestBlocksRatio(Lower(arg1), Lower(arg2))
        /\ Lower(arg1) = Lower(arg2) => result = Unit
        /\ (arg1 = <<>>) # (arg2 = <<>>) => result = 0

(***************************************************************************)
(* C21: tokenize returns, in left-to-right order and with repeats kept,    *)
(* the lower-cased form of every maximal run of ASCII letters and digits   *)
(* of the text, every other character (underscore and non-ASCII letters    *)
(* included) acting as a token boundary; an empty or whitespace-only text  *)
(* yields the empty sequence.                                              *)
(***************************************************************************)
RECURSIVE MaximalRuns(_, _)
\* the maximal runs of ASCII letters and digits of s from position i on
MaximalRuns(s, i) ==
    IF i > Len(s) THEN <<>>
    ELSE IF IsAlnum(s[i])
         THEN <<SubSeq(s, i, RunEnd(s, i) - 1)>>
              \o MaximalRuns(s, RunEnd(s, i))
         ELSE MaximalRuns(s, i + 1)

C21_TokensAreMaximalRuns ==
    pc = "tokens" => result = MaximalRuns(Lower(arg1), 1)

(***************************************************************************)
(* C24: filtering and tiering agree with the score reported to the user.   *)
(* For thresholds given to at most 3 decimals, a candidate is returned iff *)
(* its reported breakdown['overall'] (rounded to 3 decimals) is >= the     *)
(* duplicate threshold, and it is in the high-confidence tier iff that     *)
(* reported value is >= the high-confidence threshold.                     *)
(* The thresholds that decide this for a candidate are its reported value  *)
(* and the two 3-decimal values next to it.                                *)
(***************************************************************************)
\* one reported unit (0.001) as a count of 1/ScoreUnit
ReportedStep == ScoreUnit \div DisplayUnit

\* breakdown['overall'] of the Match find_duplicates builds for the candidate
ReportedOverall == find_duplicates(new_bug, candidates, 0)[1].breakdown.overall

ThresholdsNear(reported) ==
    {t \in {(reported - 1) * ReportedStep, reported * ReportedStep,
             (reported + 1) * ReportedStep} : t >= 0}

ReturnedAt(t) == find_duplicates(new_bug, candidates, t) # <<>>

HighAt(t) ==
    format_results(find_duplicates(new_bug, candidates, 0), t).high_matches
        # <<>>

C24_DecisionsAgreeWithReportedScore ==
    (pc = "scored" /\ weights = None) =>
        \A reported \in {ReportedOverall} :
            \A t \in ThresholdsNear(reported) :
                /\ ReturnedAt(t) <=> reported * ReportedStep >= t
                /\ HighAt(t) <=> reported * ReportedStep >= t

(***************************************************************************)
(* C24, amended: for thresholds given to at most 3 decimals, a returned    *)
(* candidate has a reported overall >= the duplicate threshold and a       *)
(* high-confidence one a reported overall >= the high-confidence           *)
(* threshold; a candidate whose reported overall is greater than the       *)
(* threshold is returned (is high-confidence).  A candidate whose reported *)
(* overall equals the threshold may be dropped (listed as possible): the   *)
(* decision is taken on the unrounded score.                               *)
(***************************************************************************)
C24_DecisionsNeverAboveReportedScore ==
    (pc = "scored" /\ weights = None) =>
        \A reported \in {ReportedOverall} :
            \A t \in ThresholdsNear(reported) :
                /\ ReturnedAt(t) => reported * ReportedStep >= t
                /\ reported * ReportedStep > t => ReturnedAt(t)
                /\ HighAt(t) => reported * ReportedStep >= t
                /\ reported * ReportedStep > t => HighAt(t)

\* the reported overall equals the threshold and the candidate is dropped
C24_Witness ==
    /\ pc = "scored"
    /\ weights = None
    /\ ReportedOverall > 0
    /\ ~ReturnedAt(ReportedOverall * ReportedStep)
    /\ ReturnedAt((ReportedOverall - 1) * ReportedStep)

(***************************************************************************)
(* C23: each Match returned by find_duplicates corresponds to exactly one  *)
(* corpus entry and carries that entry's key, summary and url with the     *)
(* breakdown computed for it; a corpus entry yields at most one Match, so  *)
(* matches_found <= candidates_checked = len(corpus); two corpus entries   *)
(* with the same key both appear if both reach the threshold.              *)
(***************************************************************************)
JsonRendered == pc = "done" /\ output.kind = "json"

\* assignments of a different corpus position to every match
Injections(from, to) ==
    {f \in [from -> to] : \A x, y \in from : x # y => f[x] # f[y]}

RECURSIVE Merged(_, _)
\* the per-candidate results of positions i.. put together in corpus order
Merged(alone, i) ==
    IF i > Len(alone) THEN <<>> ELSE alone[i] \o Merged(alone, i + 1)

Reversed(seq) == [i \in 1..Len(seq) |-> seq[Len(seq) + 1 - i]]

Swapped == calculate_bug_similarity(candidates[1], new_bug, weights)

MaxSteps == 2

\* the actions whose branch of _execute_step drives the page
PageActions == {"navigate", "click", "fill", "screenshot", "assert"}

KnownActions == PageActions \cup {"wait"}

\* the step actions configurations are drawn from; "hover" has no branch
StepActions == {"navigate", "wait", "hover"}

StepLists == SeqsUpTo([action : StepActions], MaxSteps)

ScenarioIds == <<"s1", "s2">>

\* config['scenarios']: a list of scenarios with their steps
Configs ==
    UNION {{[i \in 1..n |-> [id |-> ScenarioIds[i], name |-> ScenarioIds[i],
                             steps |-> f[i]]] :
                f \in [1..n -> StepLists]} : n \in 0..Len(ScenarioIds)}

Filters == {Null, "s1"}

RECURSIVE SelectSeq2(_, _)
\* [s for s in scenarios if s['id'] == scenario_filter]
SelectSeq2(seq, id) ==
    IF seq = <<>> THEN <<>>
    ELSE IF Head(seq).id = id
         THEN <<Head(seq)>> \o SelectSeq2(Tail(seq), id)
         ELSE SelectSeq2(Tail(seq), id)

\* the scenarios run iterates over
Selected(config, filter) ==
    IF filter = Null THEN config ELSE SelectSeq2(config, filter)

\* how one call of _execute_step can go: the branch completes ("done"), it
\* raises and the error screenshot is saved ("error"), or the capture of the
\* error screenshot raises too and the exception leaves _execute_step
\* ("crash")
StepOutcomes(step) ==
    IF step.action \in PageActions THEN {"done", "error", "crash"}
    ELSE {"done"}

\* the step_result _execute_step returns
execute_step(step, outcome) ==
    IF outcome = "error"
    THEN [action |-> step.action, status |-> "fail", message |-> "exception",
          screenshot |-> <<"error", step.action>>]
    ELSE IF step.action = "screenshot"
    THEN [action |-> step.action, status |-> "pass", message |-> "saved",
          screenshot |-> <<"screenshot">>]
    ELSE IF step.action \in KnownActions
    THEN [action |-> step.action, status |-> "pass", message |-> "done"]
    ELSE [action |-> step.action, status |-> "skip",
          message |-> "Unknown action"]

\* the for loop of _run_scenario goes on after a step unless it failed
AfterStepNoBreak(status) == "steps"

AfterStep(status) == IF status = "fail" THEN "break" ELSE "steps"

\* where an exception raised at a place of run goes: the try block has a
\* finally clause, the statements before it have none
HandlerNone(place) == "propagated"

Handler(place) == IF place = "try" THEN "finally" ELSE "propagated"

\* the counts _generate_report takes of self.results
CountStatus(rs, status) ==
    Cardinality({i \in 1..Len(rs) : rs[i].status = status})

\* report = self._generate_report()
generate_report(rs) ==
    [summary |->
        [total_scenarios |-> Len(rs),
         passed |-> CountStatus(rs, "pass"),
         failed |-> CountStatus(rs, "fail"),
         skipped |-> CountStatus(rs, "skip"),
         overall_status |->
            IF CountStatus(rs, "fail") = 0 THEN "PASS" ELSE "FAIL"],
     results |-> rs]

SmokeInit ==
    /\ pc = "run"
    /\ scenarios \in Configs
    /\ scenario_filter \in Filters
    /\ todo = <<>>
    /\ results = <<>>
    /\ browser = "none"
    /\ closes = 0
    /\ raised = FALSE
    /\ steps_results = <<>>
    /\ screenshots = <<>>
    /\ overall_status = Null
    /\ error_msg = Null
    /\ executed = 0
    /\ report = None
    /\ new_bug = None
    /\ candidates = <<>>
    /\ weights = None
    /\ threshold = DEFAULT_THRESHOLD
    /\ threshold_high = DEFAULT_THRESHOLD_HIGH
    /\ compared = 0
    /\ matches = <<>>
    /\ result = None
    /\ output = None
    /\ arg1 = <<>>
    /\ arg2 = <<>>
    /\ GeneratorIdle

\* run up to the for loop: the report directory, _init_browser (which can
\* raise) and the selection of the scenarios
InitBrowser ==
    /\ pc = "run"
    /\ \E ok \in BOOLEAN :
          IF ok
          THEN /\ browser' = "open"
               /\ todo' = Selected(scenarios, scenario_filter)
               /\ pc' = "scenarios"
               /\ UNCHANGED raised
          ELSE /\ raised' = TRUE
               /\ pc' = Handler("init")
               /\ UNCHANGED <<browser, todo>>
    /\ UNCHANGED <<scenarios, scenario_filter, results, closes, steps_results,
                   screenshots, overall_status, error_msg, executed, report>>
    /\ UNCHANGED <<checkerVars, generatorVars>>

\* _run_scenario up to its for loop
StartScenario ==
    /\ pc = "scenarios"
    /\ todo # <<>>
    /\ steps_results' = <<>>
    /\ screenshots' = <<>>
    /\ overall_status' = "pass"
    /\ error_msg' = Null
    /\ executed' = 0
    /\ pc' = "steps"
    /\ UNCHANGED <<scenarios, scenario_filter, todo, results, browser, closes,
                   raised, report>>
    /\ UNCHANGED <<checkerVars, generatorVars>>

\* one iteration of the for loop of _run_scenario
ExecuteStep ==
    /\ pc = "steps"
    /\ executed < Len(Head(todo).steps)
    /\ executed' = executed + 1
    /\ \E outcome \in StepOutcomes(Head(todo).steps[executed + 1]) :
          IF outcome = "crash"
          THEN /\ raised' = TRUE
               /\ pc' = Handler("try")
               /\ UNCHANGED <<steps_results, screenshots, overall_status,
                              error_msg>>
          ELSE \E r \in {execute_step(Head(todo).steps[executed + 1],
                                      outcome)} :
                 /\ steps_results' = Append(steps_results, r)
                 /\ screenshots' =
                       IF "screenshot" \in DOMAIN r
                       THEN Append(screenshots, r.screenshot)
                       ELSE screenshots
                 /\ overall_status' =
                       IF r.status = "fail" THEN "fail" ELSE overall_status
                 /\ error_msg' =
                       IF r.status = "fail" THEN r.message ELSE error_msg
                 /\ pc' = AfterStep(r.status)
                 /\ UNCHANGED raised
    /\ UNCHANGED <<scenarios, scenario_filter, todo, results, browser, closes,
                   report>>
    /\ UNCHANGED <<checkerVars, generatorVars>>

\* the loop of _run_scenario is over: the TestResult is returned and run
\* appends it to self.results
FinishScenario ==
    /\ \/ pc = "break"
       \/ pc = "steps" /\ executed = Len(Head(todo).steps)
    /\ results' = Append(results,
                         [scenario_id |-> Head(todo).id,
                          scenario_name |-> Head(todo).name,
                          status |-> overall_status,
                          steps |-> steps_results,
                          screenshot_paths |-> screenshots,
                          error_message |-> error_msg])
    /\ todo' = Tail(todo)
    /\ pc' = "scenarios"
    /\ UNCHANGED <<scenarios, scenario_filter, browser, closes, raised,
                   steps_results, screenshots, overall_status, error_msg,
                   executed, report>>
    /\ UNCHANGED <<checkerVars, generatorVars>>

\* finally: self._close_browser(), which can raise in turn
CloseBrowser ==
    /\ \/ pc = "finally"
       \/ pc = "scenarios" /\ todo = <<>>
    /\ closes' = closes + 1
    /\ \E ok \in BOOLEAN :
          /\ browser' = IF ok THEN "closed" ELSE browser
          /\ raised' = (raised \/ ~ok)
          /\ pc' = IF raised \/ ~ok THEN "propagated" ELSE "closed"
    /\ UNCHANGED <<scenarios, scenario_filter, todo, results, steps_results,
                   screenshots, overall_status, error_msg, executed, report>>
    /\ UNCHANGED <<checkerVars, generatorVars>>

\* return self._generate_report()
GenerateReport ==
    /\ pc = "closed"
    /\ report' = generate_report(results)
    /\ pc' = "returned"
    /\ UNCHANGED <<scenarios, scenario_filter, todo, results, browser, closes,
                   raised, steps_results, screenshots, overall_status,
                   error_msg, executed>>
    /\ UNCHANGED <<checkerVars, generatorVars>>

SmokeNext ==
    \/ InitBrowser
    \/ StartScenario
    \/ ExecuteStep
    \/ FinishScenario
    \/ CloseBrowser
    \/ GenerateReport

SmokeSpec == SmokeInit /\ [][SmokeNext]_vars

(***************************************************************************)
(* Properties of the smoke test runner (specification SmokeSpec)           *)
(***************************************************************************)
\* the step results rs record the first Len(rs) configured steps, in order
RecordsPrefix(rs, steps) ==
    /\ Len(rs) <= Len(steps)
    /\ \A i \in 1..Len(rs) : rs[i].action = steps[i].action

HasFail(rs) == \E i \in 1..Len(rs) : rs[i].status = "fail"

FailOnlyLast(rs) == \A i \in 1..Len(rs) : rs[i].status = "fail" => i = Len(rs)

UnknownSkipped(rs) ==
    \A i \in 1..Len(rs) :
        rs[i].status = "skip" <=> rs[i].action \notin KnownActions

\* what holds of the step results of a scenario whose loop is over
StoppedAtFirstFail(rs, status, steps) ==
    /\ RecordsPrefix(rs, steps)
    /\ FailOnlyLast(rs)
    /\ UnknownSkipped(rs)
    /\ status = (IF HasFail(rs) THEN "fail" ELSE "pass")
    /\ ~HasFail(rs) => Len(rs) = Len(steps)

\* C26: _run_scenario executes the steps in configured order and stops at the
\* first failed one: the recorded step results are a prefix of the configured
\* steps, a 'fail' result is the last one recorded, every executed step is
\* recorded (so none is executed after the failed one), the scenario status
\* is 'fail' iff a step failed, and a step with an unknown action is recorded
\* as 'skip' and the loop goes on.
C26_StopsAtFirstFailure ==
    /\ \A k \in 1..Len(results) :
          StoppedAtFirstFail(results[k].steps, results[k].status,
                             Selected(scenarios, scenario_filter)[k].steps)
    /\ pc \in {"steps", "break"} =>
          /\ executed = Len(steps_results)
          /\ RecordsPrefix(steps_results, Head(todo).steps)
          /\ FailOnlyLast(steps_results)
          /\ UnknownSkipped(steps_results)
          /\ overall_status = (IF HasFail(steps_results) THEN "fail" ELSE "pass")
          /\ pc = "break" <=> HasFail(steps_results)
    /\ pc = "scenarios" /\ results # <<>> =>
          executed = Len(results[Len(results)].steps)

\* a scenario stopped at a failed step with a configured step left, and
\* another passed after skipping a step with an unknown action
C26_Witness ==
    /\ pc = "scenarios"
    /\ \E k \in 1..Len(results) :
          /\ results[k].status = "fail"
          /\ Len(results[k].steps)
                < Len(Selected(scenarios, scenario_filter)[k].steps)
    /\ \E k \in 1..Len(results) :
          /\ results[k].status = "pass"
          /\ Len(results[k].steps) = MaxSteps
          /\ results[k].steps[1].status = "skip"

\* the checks of the summary of a report against the recorded results
SummaryConsistent(rep, rs) ==
    /\ rep.results = rs
    /\ rep.summary.total_scenarios = Len(rs)
    /\ rep.summary.passed + rep.summary.failed + rep.summary.skipped
          = rep.summary.total_scenarios
    /\ rep.summary.overall_status = "PASS"
          <=> ~\E k \in 1..Len(rs) : rs[k].status = "fail"
    /\ rep.summary.overall_status \in {"PASS", "FAIL"}

\* C27: once _init_browser has completed, run executes _close_browser exactly
\* once before it returns or lets an exception through, also when an
\* exception escapes a scenario; the report is generated only after the
\* browser was closed, and in its summary overall_status is 'PASS' iff no
\* recorded scenario failed and passed + failed + skipped = total_scenarios.
C27_ClosedOnceBeforeReport ==
    /\ closes <= 1
    /\ browser = "none" => closes = 0 /\ pc \in {"run", "propagated"}
    /\ pc \in {"scenarios", "steps", "break", "finally"} =>
          closes = 0 /\ browser = "open"
    /\ pc \in {"closed", "returned", "propagated"} /\ browser # "none" =>
          closes = 1
    /\ pc = "returned" <=> report # None
    /\ report # None =>
          /\ closes = 1
          /\ browser = "closed"
          /\ ~raised
          /\ SummaryConsistent(report, results)

\* the capture of an error screenshot raised in the second scenario; the
\* browser was closed once and the exception left run
C27_Witness ==
    /\ pc = "propagated"
    /\ raised
    /\ results # <<>>
    /\ executed > Len(steps_results)
    /\ closes = 1
    /\ browser = "closed"
    /\ report = None

\* run returned a report of a failed and a passed scenario
C27_ReportOfFailure ==
    /\ pc = "returned"
    /\ report.summary.failed = 1
    /\ report.summary.passed = 1
    /\ report.summary.overall_status = "FAIL"

(***************************************************************************)
(* The workflow generator of                                               *)
(* generating-n8n-workflows/scripts/n8n_generator.py: parse_prompt,        *)
(* create_node, generate_workflow, validate_workflow.                      *)
(*                                                                         *)
(* A prompt is a text (a sequence of one-character strings).  A Python     *)
(* dict whose order of insertion matters (connections) is a sequence of    *)
(* <<key, value>> pairs with distinct keys.  The random id of a node and   *)
(* its parameters are left out of a node.                                  *)
(***************************************************************************)
MaxWords == 2

\* word in text, for two strings
Contains(word, text) ==
    \E i \in 1..(Len(text) - Len(word) + 1) :
        SubSeq(text, i, i + Len(word) - 1) = word

\* any(word in text for word in words)
AnyIn(words, text) == \E word \in words : Contains(word, text)

\* the keyword lists of parse_prompt
WebhookWords ==
    {<<"w", "e", "b", "h", "o", "o", "k">>,
     <<"h", "t", "t", "p">>,
     <<"a", "p", "i", " ", "c", "a", "l", "l">>,
     <<"e", "n", "d", "p", "o", "i", "n", "t">>}

ScheduleWords ==
    {<<"s", "c", "h", "e", "d", "u", "l", "e">>,
     <<"c", "r", "o", "n">>,
     <<"d", "a", "i", "l", "y">>,
     <<"h", "o", "u", "r", "l", "y">>,
     <<"e", "v", "e", "r", "y">>,
     <<"p", "e", "r", "i", "o", "d", "i", "c">>}

SlackWords ==
    {<<"s", "l", "a", "c", "k">>,
     <<"s", "l", "a", "c", "k", " ", "m", "e", "s", "s", "a", "g", "e">>}

EmailWords ==
    {<<"e", "m", "a", "i", "l">>,
     <<"s", "e", "n", "d", " ", "e", "m", "a", "i", "l">>,
     <<"m", "a", "i", "l">>}

HttpWords ==
    {<<"h", "t", "t", "p">>,
     <<"a", "p", "i">>,
     <<"r", "e", "q", "u", "e", "s", "t">>,
     <<"c", "a", "l", "l", " ", "u", "r", "l">>,
     <<"f", "e", "t", "c", "h">>}

PostgresWords ==
    {<<"d", "a", "t", "a", "b", "a", "s", "e">>,
     <<"p", "o", "s", "t", "g", "r", "e", "s">>,
     <<"s", "q", "l">>,
     <<"q", "u", "e", "r", "y">>}

TelegramWords ==
    {<<"t", "e", "l", "e", "g", "r", "a", "m">>,
     <<"t", "e", "l", "e", "g", "r", "a", "m", " ", "m", "e", "s", "s", "a", "g", "e">>}

CodeWords ==
    {<<"c", "o", "d", "e">>,
     <<"t", "r", "a", "n", "s", "f", "o", "r", "m">>,
     <<"p", "r", "o", "c", "e", "s", "s", " ", "d", "a", "t", "a">>,
     <<"j", "a", "v", "a", "s", "c", "r", "i", "p", "t">>}

IfWords ==
    {<<"c", "o", "n", "d", "i", "t", "i", "o", "n">>,
     <<"i", "f">>,
     <<"c", "h", "e", "c", "k">>,
     <<"f", "i", "l", "t", "e", "r">>}

\* NODE_REGISTRY: node_type and category of each key
NODE_REGISTRY ==
    [webhook |-> [node_type |-> "n8n-nodes-base.webhook",
                  category |-> "trigger"],
     schedule |-> [node_type |-> "n8n-nodes-base.scheduleTrigger",
                   category |-> "trigger"],
     manual |-> [node_type |-> "n8n-nodes-base.manualTrigger",
                 category |-> "trigger"],
     http |-> [node_type |-> "n8n-nodes-base.httpRequest",
               category |-> "action"],
     slack |-> [node_type |-> "n8n-nodes-base.slack", category |-> "action"],
     email |-> [node_type |-> "n8n-nodes-base.emailSend",
                category |-> "action"],
     code |-> [node_type |-> "n8n-nodes-base.code", category |-> "action"],
     postgres |-> [node_type |-> "n8n-nodes-base.postgres",
                   category |-> "action"],
     telegram |-> [node_type |-> "n8n-nodes-base.telegram",
                   category |-> "action"],
     if |-> [node_type |-> "n8n-nodes-base.if", category |-> "logic"],
     set |-> [node_type |-> "n8n-nodes-base.set", category |-> "transform"],
     webhookResponse |-> [node_type |-> "n8n-nodes-base.respondToWebhook",
                          category |-> "action"]]

\* the trigger parse_prompt detects
DetectTrigger(prompt_lower) ==
    IF AnyIn(WebhookWords, prompt_lower) THEN "webhook"
    ELSE IF AnyIn(ScheduleWords, prompt_lower) THEN "schedule"
    ELSE "manual"

\* the actions parse_prompt detects, in the order of its if statements
DetectActions(prompt_lower) ==
    (IF AnyIn(SlackWords, prompt_lower) THEN <<"slack">> ELSE <<>>)
    \o (IF AnyIn(EmailWords, prompt_lower) THEN <<"email">> ELSE <<>>)
    \o (IF AnyIn(HttpWords, prompt_lower) THEN <<"http">> ELSE <<>>)
    \o (IF AnyIn(PostgresWords, prompt_lower) THEN <<"postgres">> ELSE <<>>)
    \o (IF AnyIn(TelegramWords, prompt_lower) THEN <<"telegram">> ELSE <<>>)
    \o (IF AnyIn(CodeWords, prompt_lower) THEN <<"code">> ELSE <<>>)
    \o (IF AnyIn(IfWords, prompt_lower) THEN <<"if">> ELSE <<>>)

\* re.sub(r'[^\w\s-]', '', name)
NameChars(text) ==
    SelectSeq(text, LAMBDA c : IsAlnum(c) \/ c \in {"_", " ", "-"})

RECURSIVE Strip(_)
\* name.strip()
Strip(text) ==
    IF text = <<>> THEN <<>>
    ELSE IF Head(text) = " " THEN Strip(Tail(text))
    ELSE IF text[Len(text)] = " " THEN Strip(SubSeq(text, 1, Len(text) - 1))
    ELSE text

\* extract_workflow_name, for a prompt of fewer than five words separated by
\* single spaces and of at most 50 characters (split, [:5] and join give the
\* prompt back without its outer spaces)
extract_workflow_name(text) ==
    IF Strip(NameChars(text)) = <<>> THEN "Generated Workflow"
    ELSE Strip(NameChars(text))

\* requirements = parse_prompt(prompt)
parse_prompt(text) ==
    [trigger |-> DetectTrigger(Lower(text)),
     actions |-> IF DetectActions(Lower(text)) = <<>> THEN <<"http">>
                 ELSE DetectActions(Lower(text)),
     name |-> extract_workflow_name(text)]

\* create_node(node_key, name, position)
create_node(node_key, name, position) ==
    [name |-> name,
     type |-> (IF node_key \in DOMAIN NODE_REGISTRY
               THEN NODE_REGISTRY[node_key]
               ELSE NODE_REGISTRY["http"]).node_type,
     position |-> position]

\* a naming that does not number the actions
NodeNameUnnumbered(n, i) == "Action"

\* node_name of the i-th (from 1) of n actions: "Action", or f"Action {i + 1}"
\* for the index i - 1 of enumerate
NodeName(n, i) == IF n = 1 THEN "Action" ELSE "Action " \o ToString(i)

\* prev_node_name when the i-th action is handled
PrevNodeName(n, i) == IF i = 1 THEN "Trigger" ELSE NodeName(n, i - 1)

\* d[key] = value on an insertion-ordered dict
DictSet(d, key, value) ==
    IF \E k \in 1..Len(d) : d[k][1] = key
    THEN [k \in 1..Len(d) |-> IF d[k][1] = key THEN <<key, value>> ELSE d[k]]
    ELSE Append(d, <<key, value>>)

RECURSIVE Connect(_, _)
\* connections after the first i iterations of the loop over n actions
Connect(n, i) ==
    IF i = 0 THEN <<>>
    ELSE DictSet(Connect(n, i - 1), PrevNodeName(n, i),
                 [main |-> <<<<[node |-> NodeName(n, i), type |-> "main",
                                index |-> 0]>>>>])

\* workflow = generate_workflow(prompt)
generate_workflow(text) ==
    LET requirements == parse_prompt(text)
        n == Len(requirements.actions)
    IN  [name |-> requirements.name,
         nodes |->
            <<create_node(requirements.trigger, "Trigger", <<250, 300>>)>>
            \o [i \in 1..n |->
                  create_node(requirements.actions[i], NodeName(n, i),
                              <<450 + 200 * (i - 1), 300>>)],
         connections |-> Connect(n, n),
         settings |-> [executionOrder |-> "v1"],
         staticData |-> None,
         tags |-> <<>>]

\* the names of the nodes of a workflow
NodeNames(nodes) == [k \in 1..Len(nodes) |-> nodes[k].name]

\* the issues the loop over one connection adds
ConnectionIssues(source, conn_data, node_names) ==
    (IF source \notin ToSet(node_names)
     THEN <<"Connection references non-existent source: " \o source>>
     ELSE <<>>)
    \o (IF "main" \in DOMAIN conn_data
           /\ \E b \in 1..Len(conn_data.main) :
                 \E c \in 1..Len(conn_data.main[b]) :
                    conn_data.main[b][c].node \notin ToSet(node_names)
        THEN <<"Connection references non-existent target">>
        ELSE <<>>)

RECURSIVE AllConnectionIssues(_, _)
AllConnectionIssues(connections, node_names) ==
    IF connections = <<>> THEN <<>>
    ELSE ConnectionIssues(Head(connections)[1], Head(connections)[2],
                          node_names)
         \o AllConnectionIssues(Tail(connections), node_names)

\* issues = validate_workflow(workflow)
validate_workflow(w) ==
    LET nodes == IF "nodes" \in DOMAIN w THEN w.nodes ELSE <<>>
        connections == IF "connections" \in DOMAIN w THEN w.connections
                       ELSE <<>>
        node_names == NodeNames(nodes)
    IN  (IF "name" \notin DOMAIN w THEN <<"Missing workflow name">>
         ELSE <<>>)
        \o (IF nodes = <<>> THEN <<"Workflow must have at least one node">>
            ELSE <<>>)
        \o (IF "connections" \notin DOMAIN w THEN <<"Missing connections">>
            ELSE <<>>)
        \o (IF Len(node_names) # Cardinality(ToSet(node_names))
            THEN <<"Duplicate node names found">> ELSE <<>>)
        \o AllConnectionIssues(connections, node_names)

\* the words prompts are made of
PromptWords ==
    {<<"S", "l", "a", "c", "k">>,
     <<"e", "m", "a", "i", "l">>,
     <<"f", "e", "t", "c", "h">>,
     <<"s", "q", "l">>,
     <<"t", "e", "l", "e", "g", "r", "a", "m">>,
     <<"c", "o", "d", "e">>,
     <<"V", "e", "r", "i", "f", "y">>,
     <<"p", "i", "n", "g">>,
     <<"d", "a", "i", "l", "y">>,
     <<"w", "e", "b", "h", "o", "o", "k">>,
     <<"c", "a", "l", "l">>,
     <<"a", "p", "i">>}

RECURSIVE JoinWords(_)
\* " ".join(words)
JoinWords(words) ==
    IF words = <<>> THEN <<>>
    ELSE IF Len(words) = 1 THEN words[1]
    ELSE words[1] \o <<" ">> \o JoinWords(Tail(words))

Prompts == {JoinWords(words) : words \in SeqsUpTo(PromptWords, MaxWords)}

GenInit ==
    /\ pc = "prompt"
    /\ prompt \in Prompts
    /\ workflow = None
    /\ issues = <<>>
    /\ RunnerIdle
    /\ new_bug = None
    /\ candidates = <<>>
    /\ weights = None
    /\ threshold = DEFAULT_THRESHOLD
    /\ threshold_high = DEFAULT_THRESHOLD_HIGH
    /\ compared = 0
    /\ matches = <<>>
    /\ result = None
    /\ output = None
    /\ arg1 = <<>>
    /\ arg2 = <<>>

\* workflow = generate_workflow(args.prompt)
GenerateWorkflow ==
    /\ pc = "prompt"
    /\ workflow' = generate_workflow(prompt)
    /\ pc' = "generated"
    /\ UNCHANGED <<prompt, issues>>
    /\ UNCHANGED <<checkerVars, runnerVars>>

\* issues = validate_workflow(workflow)
ValidateWorkflow ==
    /\ pc = "generated"
    /\ issues' = validate_workflow(workflow)
    /\ pc' = "validated"
    /\ UNCHANGED <<prompt, workflow>>
    /\ UNCHANGED <<checkerVars, runnerVars>>

GenNext == GenerateWorkflow \/ ValidateWorkflow

GenSpec == GenInit /\ [][GenNext]_vars

(***************************************************************************)
(* Properties of the workflow generator (specification GenSpec)            *)
(***************************************************************************)
\* the detected actions of the prompt, http when none is detected
Detected == parse_prompt(prompt).actions

\* connection k leads from node k to node k + 1 and nowhere else
ChainLink(w, k) ==
    /\ w.connections[k][1] = w.nodes[k].name
    /\ w.connections[k][2].main =
          <<<<[node |-> w.nodes[k + 1].name, type |-> "main", index |-> 0]>>>>

C28_DefaultAction ==
    /\ pc = "validated"
    /\ DetectActions(Lower(prompt)) = <<>>
    /\ prompt # <<>>
    /\ workflow.nodes[2].name = "Action"
    /\ workflow.nodes[2].type = "n8n-nodes-base.httpRequest"

====
